---- MODULE Spec2Model ----
(***************************************************************************)
(* Model of the phone-controlled plane game: the PartyKit relay            *)
(* (partykit/index.js), the client store (hooks/usePartyKitStore.js), the  *)
(* phone controller (Ui/mobile/ActiveScreen.jsx) and the display           *)
(* (Experience/PlayerController.jsx, store/gameStore.js).                  *)
(*                                                                         *)
(* Angles are whole degrees.  A WebSocket is a pair of FIFO queues (up:    *)
(* client to relay, down: relay to client); the relay handles one message  *)
(* at a time.  Connection ids are never reused.                            *)
(***************************************************************************)
EXTENDS Integers, Sequences, FiniteSets, TLC

\* ------------------------------------------------------------------ bounds
MaxSends == 2         \* envelopes the peers send, events on the phone, in one run
MaxYaw == 400         \* |yaw| of the inputs given to normalizeYaw
MaxFrames == 2        \* frames, collisions and clicks on the display in one run
MaxPlayEvents == 4    \* the same when phone and display play without disconnecting
MaxDecodeEvents == 3  \* frames sent to the relay and to the display when decoding is followed
MaxDispatchEvents == 3  \* frames the peers send when the display's dispatch is followed
CourseLen == 3          \* frames an object takes to pass the camera and be recycled
MaxCourseEvents == 2    \* envelopes the phone sends while the course is followed
MaxPhoneEvents == 5   \* sensor events, ticks and presses when the phone is followed alone

Conns == {1, 2, 3}    \* connection ids the transport hands out
StoreConns == {1, 2}  \* those of them the two store clients are handed
Rooms == {"r1", "r2"}
DeviceTypes == {"desktop", "mobile"}

VARIABLES
  wsState,      \* [Conns -> readyState] of the client's WebSocket object
  wsRoom,       \* [Conns -> room] the room segment of the socket's URL
  up,           \* [Conns -> Seq(envelope)] frames travelling to the relay
  down,         \* [Conns -> Seq(envelope)] frames travelling to the client
  srvState,     \* [Conns -> "none"|"open"|"closed"] the relay's view
  roomConns,    \* [Rooms -> SUBSET Conns] room.getConnections()
  devices,      \* [Rooms -> Seq(<<id, info>>)] this.devices, a Map
  registered,   \* history: device type of the last register the relay handled
  clock,        \* Date.now() of the senders: envelopes sent so far
  heard,        \* history: [Conns -> SUBSET Conns] senders of the data handled
  atConnect,    \* history: [Conns -> SUBSET Conns] peers present at onConnect
  announced,    \* history: [Conns -> SUBSET Conns] ids seen in device-joined
  normIn,       \* argument of normalizeYaw
  normOut,      \* its result
  normPc,       \* "arg" before the call, "done" after it
  limit,        \* envelopes and phone events one run is followed for
  dropped,      \* history: sockets whose relay / client handler dropped a frame
  wsOwner,      \* [Conns -> client] whose connect() created the socket
  status,       \* usePartyKitStore: status
  ws,           \* usePartyKitStore: ws (0 is null)
  room,         \* usePartyKitStore: room
  mobileData,   \* usePartyKitStore: mobileData
  lastAction,   \* usePartyKitStore: lastAction
  gotSample,    \* history: the client has handled an orientation frame
  connectCalls, \* history: [Clients -> Nat] calls of connect()
  sendCalls,    \* history: calls of sendData()
  unsent,       \* history: Date.now() stamps of the samples sendData did not send
  latestOrientation, \* ActiveScreen: latestOrientation.current
  calibrationRef,    \* ActiveScreen: calibrationRef.current
  sensed,       \* history: the reading of the last deviceorientation event
  calibratedAt, \* history: the reading in force when handleRecalibrate last ran
  levelFrom,    \* history: clock of the last handleRecalibrate, 0 once the pose changed
  pendingClick, \* the click event a touch on the A button still owes
  presses,      \* history: presses of the A button
  stray,        \* history: A was pressed while phone and display were not linked
  game,         \* useGameStore: gameState, score, isGameOver
  planeCalib,   \* PlayerController: calibrationRef.current
  runs,         \* history: runs of the display's A handler
  lastRead,     \* history: timestamp of the sample the last frame read
  applied,      \* the tilt (bVal, gVal) the last frame gave the plane
  frames,       \* frames, collisions and clicks the display has seen
  calls,        \* history: the game store calls of the last handler that made any
  seen,         \* gameState as the components last rendered it
  obstacleZ,    \* how far the obstacle is from its initial position, in frames
  pickup        \* [active, z]: the pickup's state and its distance likewise

relayVars == <<wsState, wsRoom, up, down, srvState, roomConns, devices,
               registered, clock, heard, atConnect, announced>>
normVars == <<normIn, normOut, normPc>>
storeFields == <<wsOwner, status, ws, room, mobileData, lastAction, gotSample>>
callVars == <<connectCalls, sendCalls, unsent>>
storeVars == <<storeFields, callVars>>
phoneVars == <<latestOrientation, calibrationRef, sensed, calibratedAt, levelFrom,
               pendingClick, presses, stray>>
sceneVars == <<obstacleZ, pickup>>
deskVars == <<game, planeCalib, runs, lastRead, applied, frames, calls, seen, sceneVars>>
clientVars == <<storeVars, phoneVars, deskVars>>
vars == <<relayVars, normVars, limit, dropped, clientVars>>

\* ------------------------------------------------------------ wire format
CloseMark == [type |-> "close"]
RegisterMsg(dt) == [type |-> "register", deviceType |-> dt]
DataMsg(p) == [type |-> "data", payload |-> p]
RawPayload(n) == [type |-> "raw", timestamp |-> n]
\* a frame whose text is no JSON, and an envelope of a type nobody handles
Unparseable == [type |-> "unparseable"]
UnknownMsg == [type |-> "ping"]
\* JSON.parse(message) throws
JSONParseThrows(m) == m = Unparseable

\* ------------------------------------------------ this.devices (a JS Map)
RECURSIVE MapIndex(_, _)
MapIndex(m, k) ==
  IF m = <<>> THEN 0
  ELSE IF m[Len(m)][1] = k THEN Len(m)
  ELSE MapIndex(SubSeq(m, 1, Len(m) - 1), k)

MapHas(m, k) == MapIndex(m, k) # 0

MapSetAppend(m, k, v) == Append(m, <<k, v>>)
MapSet(m, k, v) ==
  IF MapHas(m, k) THEN [m EXCEPT ![MapIndex(m, k)] = <<k, v>>]
  ELSE Append(m, <<k, v>>)

MapDeleteNothing(m, k) == m
MapDelete(m, k) ==
  IF MapHas(m, k)
  THEN SubSeq(m, 1, MapIndex(m, k) - 1) \o SubSeq(m, MapIndex(m, k) + 1, Len(m))
  ELSE m

MapKeys(m) == [i \in 1..Len(m) |-> m[i][1]]
MapEntries(m) == m

SeqToSet(s) == {s[i] : i \in 1..Len(s)}

\* The transport: a frame sent to a socket whose client end is closed reaches
\* no handler, and down holds the frames that still reach one.
Transport(q) == [c \in Conns |-> IF wsState[c] = "CLOSED" THEN <<>> ELSE q[c]]

\* ----------------------------------------------------------- room.broadcast
BroadcastToSender(r, msg, without) ==
  [c \in Conns |-> IF c \in roomConns[r] THEN Append(down[c], msg) ELSE down[c]]
BroadcastAllRooms(r, msg, without) ==
  [c \in Conns |-> IF srvState[c] = "open" /\ c \notin without
                   THEN Append(down[c], msg) ELSE down[c]]
BroadcastPrepend(r, msg, without) ==
  [c \in Conns |-> IF c \in roomConns[r] /\ c \notin without
                   THEN <<msg>> \o down[c] ELSE down[c]]
Broadcast(r, msg, without) ==
  [c \in Conns |-> IF c \in roomConns[r] /\ c \notin without
                   THEN Append(down[c], msg) ELSE down[c]]

ConnectedMsg(c, r) ==
  [type |-> "connected", connectionId |-> c, roomId |-> r,
   connectedDevices |-> MapKeys(devices[r])]
DeviceJoinedMsg(dt, m) ==
  [type |-> "device-joined", deviceType |-> dt, connectedDevices |-> MapEntries(m)]
DeviceLeftMsg(m) ==
  [type |-> "device-left", connectedDevices |-> MapEntries(m)]
RelayedMsg(from, p) == [type |-> "data", from |-> from, payload |-> p]

IsPresence(m) == m.type \in {"device-joined", "device-left"}
RosterIds(m) == {m.connectedDevices[i][1] : i \in 1..Len(m.connectedDevices)}

\* ------------------------------------------------------------ the relay
\* PartyServer.onConnect: the relay answers the new connection alone.
OnConnectAnnounce(c, r) ==
  /\ srvState' = [srvState EXCEPT ![c] = "open"]
  /\ roomConns' = [roomConns EXCEPT ![r] = @ \cup {c}]
  /\ down' = Transport([d \in Conns |-> IF d \in roomConns[r] \cup {c}
                                        THEN Append(down[d], ConnectedMsg(c, r))
                                        ELSE down[d]])
  /\ atConnect' = [atConnect EXCEPT ![c] = roomConns[r]]
OnConnect(c, r) ==
  /\ srvState' = [srvState EXCEPT ![c] = "open"]
  /\ roomConns' = [roomConns EXCEPT ![r] = @ \cup {c}]
  /\ down' = Transport([down EXCEPT ![c] = Append(@, ConnectedMsg(c, r))])
  /\ atConnect' = [atConnect EXCEPT ![c] = roomConns[r]]

\* PartyServer.onMessage, case "register".
OnRegister(c, data) ==
  LET r == wsRoom[c]
      m == MapSet(devices[r], c, [deviceType |-> data.deviceType])
  IN /\ devices' = [devices EXCEPT ![r] = m]
     /\ down' = Transport(Broadcast(r, DeviceJoinedMsg(data.deviceType, m), {}))
     /\ registered' = [registered EXCEPT ![c] = data.deviceType]

\* PartyServer.onMessage, case "data".
OnData(c, data) ==
  /\ down' = Transport(Broadcast(wsRoom[c], RelayedMsg(c, data.payload), {c}))
  /\ UNCHANGED <<devices, registered>>

\* PartyServer.onMessage when JSON.parse throws or no case of the switch
\* matches: the handler ends there.
OnOtherEcho(c, data) ==
  /\ down' = Transport(Broadcast(wsRoom[c], data, {}))
  /\ UNCHANGED <<devices, registered>>
OnOther(c, data) == UNCHANGED <<down, devices, registered>>

ServerOnMessage(c) ==
  /\ srvState[c] = "open"
  /\ up[c] # <<>>
  /\ Head(up[c]) # CloseMark
  /\ up' = [up EXCEPT ![c] = Tail(@)]
  /\ LET data == Head(up[c])
     IN IF JSONParseThrows(data)
        THEN /\ OnOther(c, data)
             /\ dropped' = [dropped EXCEPT !.relay = @ \cup {c}]
        ELSE CASE data.type = "register" -> OnRegister(c, data) /\ UNCHANGED dropped
               [] data.type = "data" ->
                    /\ OnData(c, data)
                    /\ dropped' = IF c \in dropped.relay
                                  THEN [dropped EXCEPT !.relayLater = @ \cup {c}]
                                  ELSE dropped
               [] OTHER -> /\ OnOther(c, data)
                           /\ dropped' = [dropped EXCEPT !.relay = @ \cup {c}]
  /\ UNCHANGED <<wsState, wsRoom, srvState, roomConns, clock,
                 heard, atConnect, announced, normVars, limit, clientVars>>

\* PartyServer.onClose: the connection has left the room when it runs.
ServerOnClose(c) ==
  /\ srvState[c] = "open"
  /\ up[c] # <<>>
  /\ Head(up[c]) = CloseMark
  /\ LET r == wsRoom[c]
         m == MapDelete(devices[r], c)
     IN /\ srvState' = [srvState EXCEPT ![c] = "closed"]
        /\ roomConns' = [roomConns EXCEPT ![r] = @ \ {c}]
        /\ up' = [up EXCEPT ![c] = <<>>]
        /\ devices' = [devices EXCEPT ![r] = m]
        /\ down' = Transport(Broadcast(r, DeviceLeftMsg(m), {c}))
  /\ UNCHANGED <<wsState, wsRoom, registered, clock, heard,
                 atConnect, announced, normVars, limit, dropped, clientVars>>

\* ------------------------------------------- connections seen as a peer
\* A peer of the relay speaks the wire protocol directly: it may register
\* more than once, send data before registering, and close at any time.
FreshConn(c) == wsState[c] = "NONE" /\ \A b \in Conns : b < c => wsState[b] # "NONE"

\* What a client socket records when a frame is handed to its onmessage.
NoteReceived(c, msg) ==
  /\ heard' = IF msg.type = "data"
              THEN [heard EXCEPT ![c] = @ \cup {msg.from}]
              ELSE heard
  /\ announced' = IF msg.type = "device-joined"
                  THEN [announced EXCEPT ![c] = @ \cup RosterIds(msg)]
                  ELSE announced

\* The first room used is called r1.
RoomChoices == IF \A c \in Conns : wsState[c] = "NONE" THEN {"r1"} ELSE Rooms

\* The peer's socket is established: the relay runs onConnect for it.
PeerConnect(c, r) ==
  /\ FreshConn(c)
  /\ r \in RoomChoices
  /\ wsState' = [wsState EXCEPT ![c] = "OPEN"]
  /\ wsRoom' = [wsRoom EXCEPT ![c] = r]
  /\ OnConnect(c, r)
  /\ UNCHANGED <<up, devices, registered, clock, heard, announced, normVars, limit, dropped, clientVars>>

PeerSendRegister(c, dt) ==
  /\ wsState[c] = "OPEN"
  /\ clock < limit
  /\ up' = [up EXCEPT ![c] = Append(@, RegisterMsg(dt))]
  /\ clock' = clock + 1
  /\ UNCHANGED <<wsState, wsRoom, down, srvState, roomConns, devices,
                 registered, heard, atConnect, announced, normVars, limit, dropped, clientVars>>

PeerSendData(c) ==
  /\ wsState[c] = "OPEN"
  /\ clock < limit
  /\ up' = [up EXCEPT ![c] = Append(@, DataMsg(RawPayload(clock + 1)))]
  /\ clock' = clock + 1
  /\ UNCHANGED <<wsState, wsRoom, down, srvState, roomConns, devices,
                 registered, heard, atConnect, announced, normVars, limit, dropped, clientVars>>

\* the peer sends the text frame m, whatever it is
PeerSendFrame(c, m) ==
  /\ wsState[c] = "OPEN"
  /\ clock < limit
  /\ up' = [up EXCEPT ![c] = Append(@, m)]
  /\ clock' = clock + 1
  /\ UNCHANGED <<wsState, wsRoom, down, srvState, roomConns, devices,
                 registered, heard, atConnect, announced, normVars, limit, dropped,
                 clientVars>>

\* ws.close(): no further event reaches the handlers of a closed socket; the
\* relay sees the close after the frames already sent.
PeerClose(c) ==
  /\ wsState[c] = "OPEN"
  /\ wsState' = [wsState EXCEPT ![c] = "CLOSED"]
  /\ up' = IF srvState[c] = "open" THEN [up EXCEPT ![c] = Append(@, CloseMark)]
           ELSE up
  /\ down' = [down EXCEPT ![c] = <<>>]
  /\ UNCHANGED <<wsRoom, srvState, roomConns, devices, registered,
                 clock, heard, atConnect, announced, normVars, limit, dropped, clientVars>>

\* ------------------------------------------------------ utils/normalizeYaw
normalizeYaw(yaw) == IF yaw > 180 THEN yaw - 360 ELSE yaw

\* ------------------------------------------------- store/gameStore.js
startGame(g) == [g EXCEPT !.gameState = "PLAYING", !.score = 0, !.isGameOver = FALSE]
setGameOverNoFlag(g) == [g EXCEPT !.gameState = "GAMEOVER"]
setGameOver(g) == [g EXCEPT !.gameState = "GAMEOVER", !.isGameOver = TRUE]
incrementScore(g, amount) == [g EXCEPT !.score = @ + amount]
resetGameNothing(g) == g
resetGame(g) == [g EXCEPT !.gameState = "START", !.score = 0, !.isGameOver = FALSE]
\* history: the call op took the store from g to g2
Call(op, g, g2) == [op |-> op, from |-> g.gameState, to |-> g2.gameState]
\* resetGame(); startGame() of one handler, with the store after each call
ResetThenStart(g) ==
  LET g1 == resetGame(g)
      g2 == startGame(g1)
  IN [game |-> g2,
      calls |-> <<Call("resetGame", g, g1), Call("startGame", g1, g2)>>]

\* ------------------------------------------- hooks/usePartyKitStore.js
Clients == {"desk", "phone"}
Null == [type |-> "null"]
DeviceTypeOf(cl) == IF cl = "phone" THEN "mobile" ELSE "desktop"
\* the display draws a random room id, here r1, and shows it as a QR code;
\* the phone opens the link in the code
RoomIdsOf(cl) == {"r1"}

\* ws?.readyState === WebSocket.OPEN
CanSend(cl) == ws[cl] # 0 /\ wsState[ws[cl]] = "OPEN"

\* sendData: transmits only on an open socket, never queues.
SendDataQueued(cl, payload) ==
  IF ws[cl] # 0 /\ wsState[ws[cl]] \in {"CONNECTING", "OPEN"}
  THEN [up EXCEPT ![ws[cl]] = Append(@, DataMsg(payload))]
  ELSE up
SendData(cl, payload) ==
  IF ws[cl] # 0 /\ wsState[ws[cl]] = "OPEN"
  THEN [up EXCEPT ![ws[cl]] = Append(@, DataMsg(payload))]
  ELSE up

\* connect(deviceType): a new socket, whatever the store held before.
Connect(cl, c, r) ==
  /\ FreshConn(c)
  /\ r \in RoomIdsOf(cl)
  /\ room' = [room EXCEPT ![cl] = r]
  /\ wsState' = [wsState EXCEPT ![c] = "CONNECTING"]
  /\ wsRoom' = [wsRoom EXCEPT ![c] = r]
  /\ wsOwner' = [wsOwner EXCEPT ![c] = cl]
  /\ ws' = [ws EXCEPT ![cl] = c]
  /\ connectCalls' = [connectCalls EXCEPT ![cl] = @ + 1]
  /\ UNCHANGED <<up, down, srvState, roomConns, devices, registered, clock,
                 heard, atConnect, announced, normVars, limit, dropped, status, mobileData,
                 lastAction, gotSample, sendCalls, unsent, phoneVars, deskVars>>

\* usePartyKitConnection's effect: connect(deviceType), once the cleanup of
\* the effect before it has run.
StoreConnect(cl, c, r) ==
  /\ ws[cl] = 0
  /\ c \in StoreConns
  /\ Connect(cl, c, r)

\* The relay accepts the handshake of a store socket and runs onConnect.
RelayAccept(c) ==
  /\ wsState[c] = "CONNECTING"
  /\ srvState[c] = "none"
  /\ OnConnect(c, wsRoom[c])
  /\ UNCHANGED <<wsState, wsRoom, up, devices, registered, clock, heard,
                 announced, normVars, limit, dropped, clientVars>>

\* ws.onopen
OnOpenFramesNone(cl) == <<>>
OnOpenFrames(cl) == <<RegisterMsg(DeviceTypeOf(cl))>>

WsOnOpen(c) ==
  /\ wsState[c] = "CONNECTING"
  /\ srvState[c] = "open"
  /\ wsState' = [wsState EXCEPT ![c] = "OPEN"]
  /\ status' = [status EXCEPT ![wsOwner[c]] = "connected"]
  /\ up' = [up EXCEPT ![c] = @ \o OnOpenFrames(wsOwner[c])]
  /\ UNCHANGED <<wsRoom, down, srvState, roomConns, devices, registered, clock,
                 heard, atConnect, announced, normVars, limit, dropped, wsOwner, ws, room,
                 mobileData, lastAction, gotSample, callVars, phoneVars, deskVars>>

\* disconnect(), which is usePartyKitConnection's cleanup: if (ws) ws.close(),
\* then set({ ws: null, status: 'disconnected' }) in either case.
StoreDisconnectNoClose(cl) ==
  /\ UNCHANGED <<wsState, up, down>>
  /\ ws' = [ws EXCEPT ![cl] = 0]
  /\ status' = [status EXCEPT ![cl] = "disconnected"]
  /\ UNCHANGED <<wsRoom, srvState, roomConns, devices, registered, clock,
                 heard, atConnect, announced, normVars, limit, dropped, wsOwner, room,
                 mobileData, lastAction, gotSample, callVars, phoneVars, deskVars>>
StoreDisconnect(cl) ==
  /\ LET c == ws[cl]
     IN IF c = 0
        THEN UNCHANGED <<wsState, up, down>>
        ELSE /\ wsState' = IF wsState[c] \in {"CONNECTING", "OPEN"}
                           THEN [wsState EXCEPT ![c] = "CLOSED"] ELSE wsState
             /\ up' = IF wsState[c] \in {"CONNECTING", "OPEN"} /\ srvState[c] = "open"
                      THEN [up EXCEPT ![c] = Append(@, CloseMark)] ELSE up
             /\ down' = [down EXCEPT ![c] = <<>>]
  /\ ws' = [ws EXCEPT ![cl] = 0]
  /\ status' = [status EXCEPT ![cl] = "disconnected"]
  /\ UNCHANGED <<wsRoom, srvState, roomConns, devices, registered, clock,
                 heard, atConnect, announced, normVars, limit, dropped, wsOwner, room,
                 mobileData, lastAction, gotSample, callVars, phoneVars, deskVars>>

\* The sockets once socket c has closed.  connect() sets neither onclose nor
\* onerror and starts no timer: nothing of the store runs, no socket is made.
SocketsAfterCloseReconnect(c) ==
  [x \in Conns |-> IF x = c THEN "CLOSED"
                   ELSE IF FreshConn(x) THEN "CONNECTING" ELSE wsState[x]]
SocketsAfterClose(c) == [wsState EXCEPT ![c] = "CLOSED"]

\* The connection of socket c is lost without the client closing it: the
\* handshake fails, the network drops it or the relay closes it.
Drop(c) ==
  /\ wsState[c] \in {"CONNECTING", "OPEN"}
  /\ wsState' = SocketsAfterClose(c)
  /\ up' = IF srvState[c] = "open" THEN [up EXCEPT ![c] = Append(@, CloseMark)]
           ELSE up
  /\ down' = [down EXCEPT ![c] = <<>>]
  /\ UNCHANGED <<wsRoom, srvState, roomConns, devices, registered, clock,
                 heard, atConnect, announced, normVars, limit, dropped, clientVars>>

\* ----------------- the store of TECHNICAL_GUIDE.md (hooks/usePartyKitStore.js)
\* ws.close(): the socket is CLOSING until its close event is dispatched.
CloseSocket(c) ==
  /\ wsState' = IF c # 0 /\ wsState[c] \in {"CONNECTING", "OPEN"}
                THEN [wsState EXCEPT ![c] = "CLOSING"] ELSE wsState
  /\ up' = IF c # 0 /\ wsState[c] \in {"CONNECTING", "OPEN"} /\ srvState[c] = "open"
           THEN [up EXCEPT ![c] = Append(@, CloseMark)] ELSE up
  /\ down' = IF c # 0 THEN [down EXCEPT ![c] = <<>>] ELSE down

\* connect(deviceType): closes the socket the store holds, sets status
\* 'connecting', makes a new socket with its four handlers and stores it.
GuideConnect(cl, c, r) ==
  /\ FreshConn(c)
  /\ c \in StoreConns
  /\ r \in RoomIdsOf(cl)
  /\ LET old == ws[cl]
     IN /\ wsState' = [x \in Conns |->
                         IF x = c THEN "CONNECTING"
                         ELSE IF x = old /\ wsState[x] \in {"CONNECTING", "OPEN"}
                              THEN "CLOSING" ELSE wsState[x]]
        /\ up' = IF old # 0 /\ wsState[old] \in {"CONNECTING", "OPEN"} /\ srvState[old] = "open"
                 THEN [up EXCEPT ![old] = Append(@, CloseMark)] ELSE up
        /\ down' = IF old # 0 THEN [down EXCEPT ![old] = <<>>] ELSE down
  /\ status' = [status EXCEPT ![cl] = "connecting"]
  /\ room' = [room EXCEPT ![cl] = r]
  /\ wsRoom' = [wsRoom EXCEPT ![c] = r]
  /\ wsOwner' = [wsOwner EXCEPT ![c] = cl]
  /\ ws' = [ws EXCEPT ![cl] = c]
  /\ connectCalls' = [connectCalls EXCEPT ![cl] = @ + 1]
  /\ UNCHANGED <<srvState, roomConns, devices, registered, clock, heard, atConnect,
                 announced, normVars, limit, dropped, mobileData, lastAction,
                 gotSample, sendCalls, unsent, phoneVars, deskVars>>

\* disconnect(): if (ws) { ws.close(); set({ ws: null, status: 'disconnected' }) }
GuideDisconnect(cl) ==
  /\ ws[cl] # 0
  /\ CloseSocket(ws[cl])
  /\ ws' = [ws EXCEPT ![cl] = 0]
  /\ status' = [status EXCEPT ![cl] = "disconnected"]
  /\ UNCHANGED <<wsRoom, srvState, roomConns, devices, registered, clock,
                 heard, atConnect, announced, normVars, limit, dropped, wsOwner, room,
                 mobileData, lastAction, gotSample, callVars, phoneVars, deskVars>>

\* ws.onclose of socket c: set({ status: 'disconnected', ws: null }), whichever
\* socket the store holds by then.
GuideOnClose(c) ==
  /\ wsState[c] = "CLOSING"
  /\ wsState' = [wsState EXCEPT ![c] = "CLOSED"]
  /\ down' = [down EXCEPT ![c] = <<>>]
  /\ status' = [status EXCEPT ![wsOwner[c]] = "disconnected"]
  /\ ws' = [ws EXCEPT ![wsOwner[c]] = 0]
  /\ UNCHANGED <<wsRoom, up, srvState, roomConns, devices, registered, clock,
                 heard, atConnect, announced, normVars, limit, dropped, wsOwner, room,
                 mobileData, lastAction, gotSample, callVars, phoneVars, deskVars>>

\* A text frame that is no JSON, or an envelope of a type the store does not
\* know, arrives on the open socket c of a store.
ForeignFrame(c, m) ==
  /\ wsState[c] = "OPEN"
  /\ clock < limit
  /\ down' = [down EXCEPT ![c] = Append(@, m)]
  /\ clock' = clock + 1
  /\ UNCHANGED <<wsState, wsRoom, up, srvState, roomConns, devices, registered,
                 heard, atConnect, announced, normVars, limit, dropped, clientVars>>

\* ------------------------------------- Experience/PlayerController.jsx
\* Obstacle.jsx, useEffect([gameState, initialPosition]): runs after a render
\* in which gameState changed, and moves the obstacle back when it is START.
ObstacleEffect(old, new, z) == IF new # old /\ new = "START" THEN 0 ELSE z

\* useEffect([gameState]): runs after a render in which gameState changed.
GameStateEffect(old, new, md, calib) ==
  IF new # old /\ new \in {"START", "PLAYING"}
  THEN IF md # Null THEN [beta |-> md.beta, gamma |-> md.gamma]
       ELSE [beta |-> 0, gamma |-> 0]
  ELSE calib

\* The lastAction subscriber, for an action with id 'A'.  The listener runs
\* for every frame: each payload is a freshly parsed object.
OnActionAAlways ==
  LET md == mobileData["desk"]
      restart == TRUE
      g1 == IF restart THEN ResetThenStart(game).game ELSE game
      calib1 == IF md # Null THEN [beta |-> md.beta, gamma |-> md.gamma]
                ELSE planeCalib
  IN /\ game' = g1
     /\ planeCalib' = GameStateEffect(game.gameState, g1.gameState, md, calib1)
     /\ runs' = runs + 1
     /\ calls' = IF restart THEN ResetThenStart(game).calls ELSE calls
     /\ seen' = g1.gameState
     /\ obstacleZ' = ObstacleEffect(seen, g1.gameState, obstacleZ)
     /\ UNCHANGED <<lastRead, applied, frames, pickup>>
OnActionA ==
  LET md == mobileData["desk"]
      restart == game.gameState = "GAMEOVER"
      g1 == IF restart THEN ResetThenStart(game).game ELSE game
      calib1 == IF md # Null THEN [beta |-> md.beta, gamma |-> md.gamma]
                ELSE planeCalib
  IN /\ game' = g1
     /\ planeCalib' = GameStateEffect(game.gameState, g1.gameState, md, calib1)
     /\ runs' = runs + 1
     /\ calls' = IF restart THEN ResetThenStart(game).calls ELSE calls
     /\ seen' = g1.gameState
     /\ obstacleZ' = ObstacleEffect(seen, g1.gameState, obstacleZ)
     /\ UNCHANGED <<lastRead, applied, frames, pickup>>

\* ws.onmessage
OnMessageSampleKeepFirst(cl, data) ==
  IF data.type = "data" /\ data.payload.type = "orientation" /\ mobileData[cl] = Null
  THEN [mobileData EXCEPT ![cl] = data.payload]
  ELSE mobileData
OnMessageSampleAnyData(cl, data) ==
  IF data.type = "data"
  THEN [mobileData EXCEPT ![cl] = data.payload]
  ELSE mobileData
OnMessageSample(cl, data) ==
  IF data.type = "data" /\ data.payload.type = "orientation"
  THEN [mobileData EXCEPT ![cl] = data.payload]
  ELSE mobileData

OnMessageActionAnyData(cl, data) ==
  IF data.type = "data"
  THEN [lastAction EXCEPT ![cl] = data.payload]
  ELSE lastAction
OnMessageAction(cl, data) ==
  IF data.type = "data" /\ data.payload.type = "button"
  THEN [lastAction EXCEPT ![cl] = data.payload]
  ELSE lastAction

WsOnMessage(c) ==
  /\ wsState[c] = "OPEN"
  /\ down[c] # <<>>
  /\ down' = [down EXCEPT ![c] = Tail(@)]
  /\ LET data == Head(down[c])
         cl == wsOwner[c]
     IN IF JSONParseThrows(data)
        THEN /\ dropped' = [dropped EXCEPT !.client = @ \cup {c}]
             /\ UNCHANGED <<mobileData, lastAction, gotSample, deskVars, heard,
                            announced>>
        ELSE IF data = UnknownMsg
        THEN /\ dropped' = [dropped EXCEPT !.client = @ \cup {c}]
             /\ UNCHANGED <<mobileData, lastAction, gotSample, deskVars, heard,
                            announced>>
        ELSE /\ mobileData' = OnMessageSample(cl, data)
             /\ lastAction' = OnMessageAction(cl, data)
             /\ gotSample' = IF data.type = "data" /\ data.payload.type = "orientation"
                             THEN [gotSample EXCEPT ![cl] = TRUE] ELSE gotSample
             /\ IF /\ cl = "desk"
                   /\ data.type = "data"
                   /\ data.payload.type = "button"
                   /\ data.payload.id = "A"
                THEN OnActionA
                ELSE UNCHANGED deskVars
             /\ NoteReceived(c, data)
             /\ dropped' = IF data.type = "data" /\ c \in dropped.client
                           THEN [dropped EXCEPT !.clientLater = @ \cup {c}]
                           ELSE dropped
  /\ UNCHANGED <<wsState, wsRoom, up, srvState, roomConns, devices, registered,
                 clock, atConnect, normVars, limit, wsOwner, status, ws, room,
                 callVars, phoneVars>>

\* useFrame, "Apply calibration"
Tilt(md, calib) == [beta |-> md.beta - calib.beta, gamma |-> md.gamma - calib.gamma]

\* useFrame: one rendered frame (delta is one unit of time).
\* gameState === 'START' && mobileData
AutoStartAlways(gs, md) == gs = "START"
AutoStart(gs, md) == gs = "START" /\ md # Null

\* The gameState a component reads is the one of its last render.  A store
\* change made by a handler is rendered before the next animation frame.
Rendered == seen = game.gameState

Frame ==
  LET md == mobileData["desk"]
  IN /\ frames < MaxFrames
     /\ Rendered
     /\ frames' = IF md # Null THEN frames + 1 ELSE frames
     /\ IF seen # "PLAYING"
        THEN /\ IF AutoStart(seen, md)
                THEN /\ game' = startGame(game)
                     /\ calls' = <<Call("startGame", game, startGame(game))>>
                     /\ planeCalib' = GameStateEffect("START", "PLAYING", md, planeCalib)
                ELSE UNCHANGED <<game, planeCalib, calls>>
             /\ UNCHANGED applied
        ELSE IF md = Null
             THEN UNCHANGED <<game, planeCalib, applied, calls>>
             ELSE /\ game' = incrementScore(game, 1)
                  /\ calls' = <<Call("incrementScore", game, incrementScore(game, 1))>>
                  /\ applied' = Tilt(md, planeCalib)
                  /\ UNCHANGED planeCalib
     /\ seen' = game'.gameState
     /\ obstacleZ' = ObstacleEffect(seen, game'.gameState, obstacleZ)
     /\ UNCHANGED pickup
     /\ lastRead' = IF md # Null THEN md.timestamp ELSE lastRead
     /\ UNCHANGED <<relayVars, normVars, limit, dropped, storeVars, phoneVars, runs>>

\* onCollisionEnter: an event of the physics step.  The events of one step are
\* all delivered before the components render again.
Collision ==
  /\ seen = "PLAYING"
  /\ game' = setGameOver(game)
  /\ calls' = <<Call("setGameOver", game, setGameOver(game))>>
  /\ UNCHANGED <<relayVars, normVars, limit, dropped, storeVars, phoneVars, planeCalib, runs,
                 lastRead, applied, frames, seen, sceneVars>>

\* The components render the store's state after the physics step changed it.
Render ==
  /\ ~Rendered
  /\ seen' = game.gameState
  /\ obstacleZ' = ObstacleEffect(seen, game.gameState, obstacleZ)
  /\ UNCHANGED <<relayVars, normVars, limit, dropped, storeVars, phoneVars, game,
                 planeCalib, runs, lastRead, applied, frames, calls, pickup>>

\* Ui/GameOver.jsx: the RESTART button, rendered while isGameOver.
RestartClick ==
  /\ frames < MaxFrames
  /\ frames' = frames + 1
  /\ Rendered
  /\ game.isGameOver
  /\ game' = ResetThenStart(game).game
  /\ calls' = ResetThenStart(game).calls
  /\ seen' = game'.gameState
  /\ obstacleZ' = ObstacleEffect(seen, game'.gameState, obstacleZ)
  /\ planeCalib' = GameStateEffect(game.gameState, "PLAYING", mobileData["desk"], planeCalib)
  /\ UNCHANGED <<relayVars, normVars, limit, dropped, storeVars, phoneVars, runs, lastRead,
                 applied, pickup>>

\* ----------------------------------- Experience/Obstacle.jsx, Pickup.jsx
\* One frame of travel: the object moves towards the camera, and once it has
\* passed behind it (newZ < -160) it is put back at the far end of the course.
Advance(z) == IF z + 1 >= CourseLen THEN 0 ELSE z + 1

\* Obstacle.jsx, useFrame
ObstacleFrame ==
  /\ seen = "PLAYING"
  /\ obstacleZ' = Advance(obstacleZ)
  /\ UNCHANGED <<relayVars, normVars, limit, dropped, storeVars, phoneVars, game,
                 planeCalib, runs, lastRead, applied, frames, calls, seen, pickup>>

\* Pickup.jsx, useFrame.  A pickup that is not active renders null: its
\* RigidBody is unmounted and rigidBodyRef.current is null, so the callback
\* returns before it moves, recycles or reactivates anything.
PickupFrame ==
  /\ seen = "PLAYING"
  /\ pickup' = IF pickup.active
               THEN [active |-> TRUE, z |-> Advance(pickup.z)]
               ELSE pickup
  /\ UNCHANGED <<relayVars, normVars, limit, dropped, storeVars, phoneVars, game,
                 planeCalib, runs, lastRead, applied, frames, calls, seen, obstacleZ>>

\* Pickup.jsx, onIntersectionEnter: an event of the physics step, like
\* onCollisionEnter.
PickupHit ==
  /\ pickup.active
  /\ seen = "PLAYING"
  /\ game' = incrementScore(game, 50)
  /\ calls' = <<Call("incrementScore", game, incrementScore(game, 50))>>
  /\ pickup' = [active |-> FALSE, z |-> 0]
  /\ UNCHANGED <<relayVars, normVars, limit, dropped, storeVars, phoneVars,
                 planeCalib, runs, lastRead, applied, frames, seen, obstacleZ>>

\* --------------------------------------------- Ui/mobile/ActiveScreen.jsx
\* the readings the orientation sensor reports
Readings ==
  {[alpha |-> 0, beta |-> 0, gamma |-> 0], [alpha |-> 350, beta |-> 20, gamma |-> -10]}

\* handleOrientation
Sense(e) ==
  /\ clock < limit
  /\ clock' = clock + 1
  /\ latestOrientation' =
       [alpha |-> normalizeYaw(e.alpha), beta |-> e.beta, gamma |-> e.gamma]
  /\ sensed' = e
  /\ levelFrom' = IF e = sensed THEN levelFrom ELSE 0
  /\ UNCHANGED <<wsState, wsRoom, up, down, srvState, roomConns, devices,
                 registered, heard, atConnect, announced, normVars, limit, dropped, storeVars,
                 deskVars, calibrationRef, calibratedAt, pendingClick, presses, stray>>

CalibratedSum(raw, calibration) ==
  [alpha |-> normalizeYaw(raw.alpha + calibration.alpha),
   beta |-> raw.beta + calibration.beta,
   gamma |-> raw.gamma + calibration.gamma]
Calibrated(raw, calibration) ==
  [alpha |-> normalizeYaw(raw.alpha - calibration.alpha),
   beta |-> raw.beta - calibration.beta,
   gamma |-> raw.gamma - calibration.gamma]

\* the setInterval callback
Tick ==
  /\ clock < limit
  /\ LET c == Calibrated(latestOrientation, calibrationRef)
     IN up' = SendData("phone", [type |-> "orientation", alpha |-> c.alpha,
                                 beta |-> c.beta, gamma |-> c.gamma,
                                 timestamp |-> clock + 1])
  /\ clock' = clock + 1
  /\ sendCalls' = sendCalls + 1
  /\ unsent' = IF CanSend("phone") THEN unsent ELSE unsent \cup {clock + 1}
  /\ UNCHANGED <<wsState, wsRoom, down, srvState, roomConns, devices,
                 registered, heard, atConnect, announced, normVars, limit, dropped,
                 storeFields, connectCalls, phoneVars, deskVars>>

\* phone and display both hold an open socket in the same room
Linked ==
  /\ ws["phone"] # 0 /\ ws["desk"] # 0
  /\ wsState[ws["phone"]] = "OPEN" /\ wsState[ws["desk"]] = "OPEN"
  /\ wsRoom[ws["phone"]] = wsRoom[ws["desk"]]

\* handleRecalibrate
HandleRecalibrate ==
  /\ calibrationRef' = latestOrientation
  /\ calibratedAt' = sensed
  /\ up' = SendData("phone", [type |-> "button", id |-> "A"])
  /\ sendCalls' = sendCalls + 1

\* One press of the A button.  Button.jsx binds the handler to onTouchStart
\* and to onClick: a finger fires touchstart now and click later, a mouse
\* fires click only.
PressA(pointer) ==
  /\ clock < limit
  /\ ~pendingClick
  /\ HandleRecalibrate
  /\ pendingClick' = (pointer = "touch")
  /\ presses' = presses + 1
  /\ stray' = (stray \/ ~Linked)
  /\ clock' = clock + 1
  /\ levelFrom' = clock + 1
  /\ UNCHANGED <<wsState, wsRoom, down, srvState, roomConns, devices,
                 registered, heard, atConnect, announced, normVars, limit, dropped,
                 storeFields, connectCalls, unsent, deskVars, latestOrientation, sensed>>

\* the click event that follows the touch
ClickAfterTouch ==
  /\ pendingClick
  /\ HandleRecalibrate
  /\ pendingClick' = FALSE
  /\ levelFrom' = clock
  /\ UNCHANGED <<wsState, wsRoom, down, srvState, roomConns, devices,
                 registered, clock, heard, atConnect, announced, normVars, limit, dropped,
                 storeFields, connectCalls, unsent, deskVars, latestOrientation, sensed,
                 presses, stray>>

InitClients ==
  /\ wsOwner = [c \in Conns |-> "desk"]
  /\ status = [cl \in Clients |-> "disconnected"]
  /\ ws = [cl \in Clients |-> 0]
  /\ room = [cl \in Clients |-> "none"]
  /\ mobileData = [cl \in Clients |-> Null]
  /\ lastAction = [cl \in Clients |-> Null]
  /\ gotSample = [cl \in Clients |-> FALSE]
  /\ connectCalls = [cl \in Clients |-> 0]
  /\ sendCalls = 0
  /\ unsent = {}
  /\ latestOrientation = [alpha |-> 0, beta |-> 0, gamma |-> 0]
  /\ calibrationRef = [alpha |-> 0, beta |-> 0, gamma |-> 0]
  /\ sensed = [alpha |-> 0, beta |-> 0, gamma |-> 0]
  /\ calibratedAt = Null
  /\ levelFrom = 0
  /\ pendingClick = FALSE
  /\ presses = 0
  /\ stray = FALSE
  /\ game = [gameState |-> "START", score |-> 0, isGameOver |-> FALSE]
  /\ planeCalib = [beta |-> 0, gamma |-> 0]
  /\ runs = 0
  /\ lastRead = 0
  /\ applied = [beta |-> 0, gamma |-> 0]
  /\ frames = 0
  /\ calls = <<>>
  /\ seen = "START"
  /\ obstacleZ = 0
  /\ pickup = [active |-> TRUE, z |-> 0]

InitRelay ==
  /\ wsState = [c \in Conns |-> "NONE"]
  /\ wsRoom = [c \in Conns |-> "r1"]
  /\ up = [c \in Conns |-> <<>>]
  /\ down = [c \in Conns |-> <<>>]
  /\ srvState = [c \in Conns |-> "none"]
  /\ roomConns = [r \in Rooms |-> {}]
  /\ devices = [r \in Rooms |-> <<>>]
  /\ registered = [c \in Conns |-> "none"]
  /\ clock = 0
  /\ heard = [c \in Conns |-> {}]
  /\ atConnect = [c \in Conns |-> {}]
  /\ announced = [c \in Conns |-> {}]

InitNormIdle ==
  /\ normIn = 0 /\ normOut = 0 /\ normPc = "idle"
  /\ dropped = [relay |-> {}, client |-> {}, relayLater |-> {}, clientLater |-> {}]

RelayInit == InitRelay /\ InitNormIdle /\ InitClients /\ limit = MaxSends

RelayNext ==
  \/ \E c \in Conns, r \in Rooms : PeerConnect(c, r)
  \/ \E c \in Conns, dt \in DeviceTypes : PeerSendRegister(c, dt)
  \/ \E c \in Conns : PeerSendData(c)
  \/ \E c \in Conns : ServerOnMessage(c)
  \/ \E c \in Conns : PeerClose(c)
  \/ \E c \in Conns : ServerOnClose(c)

SpecRelay == RelayInit /\ [][RelayNext]_vars

\* ------------------------------------------- the game: display and phone
Init == InitRelay /\ InitNormIdle /\ InitClients /\ limit = MaxSends

Next ==
  \/ \E cl \in Clients, c \in Conns, r \in Rooms : StoreConnect(cl, c, r)
  \/ \E c \in Conns : RelayAccept(c)
  \/ \E c \in Conns : WsOnOpen(c)
  \/ \E c \in Conns : ServerOnMessage(c)
  \/ \E c \in Conns : WsOnMessage(c)
  \/ \E cl \in Clients : StoreDisconnect(cl)
  \/ \E c \in Conns : ServerOnClose(c)
  \/ \E e \in Readings : Sense(e)
  \/ Tick
  \/ \E pointer \in {"touch", "mouse"} : PressA(pointer)
  \/ ClickAfterTouch
  \/ Frame
  \/ Collision
  \/ Render
  \/ RestartClick

Spec == Init /\ [][Next]_vars

\* --------------- the phone's store, called in any order, and connections lost
InitStore == InitRelay /\ InitNormIdle /\ InitClients /\ limit = MaxSends

NextStore ==
  \/ \E c \in StoreConns, r \in Rooms : Connect("phone", c, r)
  \/ StoreDisconnect("phone")
  \/ \E c \in Conns : RelayAccept(c)
  \/ \E c \in Conns : WsOnOpen(c)
  \/ \E c \in Conns : Drop(c)
  \/ \E c \in Conns : ServerOnMessage(c)
  \/ \E c \in Conns : ServerOnClose(c)
  \/ \E c \in Conns : WsOnMessage(c)
  \/ Tick

SpecStore == InitStore /\ [][NextStore]_vars

\* ----------------------- the guide's store on the phone, called in any order
NextGuide ==
  \/ \E c \in StoreConns, r \in Rooms : GuideConnect("phone", c, r)
  \/ GuideDisconnect("phone")
  \/ \E c \in Conns : RelayAccept(c)
  \/ \E c \in Conns : WsOnOpen(c)
  \/ \E c \in Conns : GuideOnClose(c)
  \/ \E c \in Conns : ServerOnMessage(c)
  \/ \E c \in Conns : ServerOnClose(c)
  \/ Tick

SpecGuide == InitStore /\ [][NextGuide]_vars

\* ------------------ the display's store and a peer, with undecodable frames
\* socket c belongs to a store
StoreSocket(c) == \E cl \in Clients : ws[cl] = c

JunkFrames == {Unparseable, UnknownMsg}
PeerFrames == JunkFrames \cup {DataMsg([type |-> "button", id |-> "A"])}

InitDecode == InitRelay /\ InitNormIdle /\ InitClients /\ limit = MaxDecodeEvents

NextDecode ==
  \/ \E c \in Conns, r \in Rooms : StoreConnect("desk", c, r)
  \/ \E c \in Conns : RelayAccept(c)
  \/ \E c \in Conns : WsOnOpen(c)
  \/ \E c \in Conns, r \in Rooms : PeerConnect(c, r)
  \/ \E c \in Conns : ~StoreSocket(c) /\ PeerSendData(c)
  \/ \E c \in Conns, m \in PeerFrames : ~StoreSocket(c) /\ PeerSendFrame(c, m)
  \/ \E c \in Conns, m \in JunkFrames : StoreSocket(c) /\ ForeignFrame(c, m)
  \/ \E c \in Conns : ServerOnMessage(c)
  \/ \E c \in Conns : StoreSocket(c) /\ WsOnMessage(c)

SpecDecode == InitDecode /\ [][NextDecode]_vars

\* ------------- the display's store and peers sending every kind of payload
\* a data frame of each payload kind, sent as envelope number n
DispatchFrames(n) ==
  {DataMsg([type |-> "orientation", alpha |-> 0, beta |-> 20, gamma |-> -10,
            timestamp |-> n]),
   DataMsg([type |-> "button", id |-> "A"]),
   DataMsg(RawPayload(n))}

InitDispatch == InitRelay /\ InitNormIdle /\ InitClients /\ limit = MaxDispatchEvents

NextDispatch ==
  \/ \E c \in Conns, r \in Rooms : StoreConnect("desk", c, r)
  \/ \E c \in Conns : RelayAccept(c)
  \/ \E c \in Conns : WsOnOpen(c)
  \/ \E c \in Conns, r \in Rooms : PeerConnect(c, r)
  \/ \E c \in Conns, m \in DispatchFrames(clock + 1) : ~StoreSocket(c) /\ PeerSendFrame(c, m)
  \/ \E c \in Conns : ServerOnMessage(c)
  \/ \E c \in Conns : StoreSocket(c) /\ WsOnMessage(c)

SpecDispatch == InitDispatch /\ [][NextDispatch]_vars

\* ------------------------------------------------- the phone on its own
\* the poses the phone is moved through: compass headings in [0, 360)
Poses ==
  {[alpha |-> a, beta |-> b, gamma |-> 0] :
     a \in {0, 20, 90, 180, 190, 270, 359}, b \in {0, 20}}

InitPhone == InitRelay /\ InitNormIdle /\ InitClients /\ limit = MaxPhoneEvents

NextPhone ==
  \/ \E c \in Conns, r \in Rooms : StoreConnect("phone", c, r)
  \/ \E c \in Conns : RelayAccept(c)
  \/ \E c \in Conns : WsOnOpen(c)
  \/ \E e \in Poses : Sense(e)
  \/ Tick
  \/ \E pointer \in {"touch", "mouse"} : PressA(pointer)
  \/ ClickAfterTouch

SpecPhone == InitPhone /\ [][NextPhone]_vars

\* -------------------------------- phone and display, neither disconnects
\* The display (socket 1) and then the phone (socket 2) have connected to
\* room r1 and registered, and every frame of that has been handled.
Paired ==
  /\ wsState = <<"OPEN", "OPEN", "NONE">>
  /\ wsRoom = [c \in Conns |-> "r1"]
  /\ up = [c \in Conns |-> <<>>]
  /\ down = [c \in Conns |-> <<>>]
  /\ srvState = <<"open", "open", "none">>
  /\ roomConns = [r \in Rooms |-> IF r = "r1" THEN {1, 2} ELSE {}]
  /\ devices = [r \in Rooms |->
                  IF r = "r1" THEN <<<<1, [deviceType |-> "desktop"]>>,
                                     <<2, [deviceType |-> "mobile"]>>>>
                  ELSE <<>>]
  /\ registered = <<"desktop", "mobile", "none">>
  /\ clock = 0
  /\ heard = [c \in Conns |-> {}]
  /\ atConnect = <<{}, {1}, {}>>
  /\ announced = <<{1, 2}, {1, 2}, {}>>
  /\ wsOwner = <<"desk", "phone", "desk">>
  /\ status = [cl \in Clients |-> "connected"]
  /\ ws = [cl \in Clients |-> IF cl = "desk" THEN 1 ELSE 2]
  /\ room = [cl \in Clients |-> "r1"]
  /\ mobileData = [cl \in Clients |-> Null]
  /\ lastAction = [cl \in Clients |-> Null]
  /\ gotSample = [cl \in Clients |-> FALSE]
  /\ connectCalls = [cl \in Clients |-> 1]
  /\ sendCalls = 0
  /\ unsent = {}
  /\ latestOrientation = [alpha |-> 0, beta |-> 0, gamma |-> 0]
  /\ calibrationRef = [alpha |-> 0, beta |-> 0, gamma |-> 0]
  /\ sensed = [alpha |-> 0, beta |-> 0, gamma |-> 0]
  /\ calibratedAt = Null
  /\ levelFrom = 0
  /\ pendingClick = FALSE
  /\ presses = 0
  /\ stray = FALSE
  /\ game = [gameState |-> "START", score |-> 0, isGameOver |-> FALSE]
  /\ planeCalib = [beta |-> 0, gamma |-> 0]
  /\ runs = 0
  /\ lastRead = 0
  /\ applied = [beta |-> 0, gamma |-> 0]
  /\ frames = 0
  /\ calls = <<>>
  /\ seen = "START"
  /\ obstacleZ = 0
  /\ pickup = [active |-> TRUE, z |-> 0]

InitPlay == Paired /\ InitNormIdle /\ limit = MaxPlayEvents

NextPlay ==
  \/ \E c \in Conns : ServerOnMessage(c)
  \/ \E c \in Conns : WsOnMessage(c)
  \/ \E e \in Readings : Sense(e)
  \/ Tick
  \/ \E pointer \in {"touch", "mouse"} : PressA(pointer)
  \/ ClickAfterTouch
  \/ Frame

SpecPlay == InitPlay /\ [][NextPlay]_vars

\* ------------------------------- the paired game with collisions and restarts
NextGame ==
  \/ \E c \in Conns : ServerOnMessage(c)
  \/ \E c \in Conns : WsOnMessage(c)
  \/ Tick
  \/ \E pointer \in {"touch", "mouse"} : PressA(pointer)
  \/ ClickAfterTouch
  \/ Frame
  \/ Collision
  \/ Render
  \/ RestartClick

SpecGame == InitPlay /\ [][NextGame]_vars

\* ------------------------- the paired game with its obstacle and its pickup
InitCourse == Paired /\ InitNormIdle /\ limit = MaxCourseEvents

NextCourse ==
  \/ \E c \in Conns : ServerOnMessage(c)
  \/ \E c \in Conns : WsOnMessage(c)
  \/ Tick
  \/ PressA("mouse")
  \/ Frame
  \/ ObstacleFrame
  \/ PickupFrame
  \/ Collision
  \/ PickupHit
  \/ Render
  \/ RestartClick

SpecCourse == InitCourse /\ [][NextCourse]_vars

\* the render loop calls every useFrame callback on every animation frame
SpecCourseLive ==
  /\ InitCourse /\ [][NextCourse]_vars
  /\ WF_vars(Frame) /\ WF_vars(ObstacleFrame) /\ WF_vars(PickupFrame)
  /\ WF_vars(Render)

\* ------------------------------------------------ normalizeYaw on its own
InitNorm ==
  /\ InitRelay /\ InitClients
  /\ normIn \in (0 - MaxYaw)..MaxYaw
  /\ normOut = 0
  /\ normPc = "arg"
  /\ limit = MaxSends
  /\ dropped = [relay |-> {}, client |-> {}, relayLater |-> {}, clientLater |-> {}]

CallNormalizeYaw ==
  /\ normPc = "arg"
  /\ normOut' = normalizeYaw(normIn)
  /\ normPc' = "done"
  /\ UNCHANGED <<normIn, limit, dropped, relayVars, clientVars>>

NextNorm == CallNormalizeYaw

SpecNorm == InitNorm /\ [][NextNorm]_vars

\* ===================================================== claims on the relay
DataFrom(q, a) == {i \in 1..Len(q) : q[i].type = "data" /\ q[i].from = a}
DataIn(q) == {i \in 1..Len(q) : q[i].type = "data"}

\* C1: when the relay handles a `data` envelope of connection a, every other
\* connection of a's room whose socket is not closed receives exactly one
\* relayed copy, with from = a and the payload as sent, and neither a nor any
\* connection outside the room receives anything.
FanOutExclusion ==
  [][\A a \in Conns :
       (/\ srvState[a] = "open"
        /\ up[a] # <<>>
        /\ Head(up[a]).type = "data"
        /\ up'[a] = Tail(up[a]))
       => \A b \in Conns :
            down'[b] = IF b # a /\ b \in roomConns[wsRoom[a]] /\ wsState[b] # "CLOSED"
                       THEN Append(down[b], RelayedMsg(a, Head(up[a]).payload))
                       ELSE down[b]]_vars

FanOutWitness ==
  \E a \in Conns :
    /\ roomConns["r1"] = Conns
    /\ DataIn(down[a]) = {}
    /\ \A b \in Conns \ {a} :
         Cardinality(DataFrom(down[b], a)) = 1 /\ Cardinality(DataIn(down[b])) = 1

\* C2: a relayed `data` frame only ever reaches connections of the sender's
\* room, and the roster of a room only lists connections of that room.
RoomIsolation ==
  /\ \A c \in Conns : \A i \in DataIn(down[c]) : wsRoom[down[c][i].from] = wsRoom[c]
  /\ \A r \in Rooms : \A id \in SeqToSet(MapKeys(devices[r])) : wsRoom[id] = r

RoomIsolationWitness ==
  \E a, b, c \in Conns :
    /\ {a, c} \subseteq roomConns["r1"]
    /\ b \in roomConns["r2"]
    /\ DataFrom(down[c], a) # {}
    /\ registered[b] # "none"
    /\ DataIn(down[b]) = {}

\* The devices of room r the relay should know: registered and not closed.
LiveRegistered(r) ==
  {c \in Conns : wsRoom[c] = r /\ registered[c] # "none" /\ srvState[c] = "open"}

RegistryInvariant ==
  \A r \in Rooms :
    /\ SeqToSet(MapKeys(devices[r])) = LiveRegistered(r)
    /\ Len(devices[r]) = Cardinality(LiveRegistered(r))

\* a connection registered twice (the second time as another device type)
RegistryWitness ==
  \E c \in Conns :
    /\ Len(down[c]) = 3
    /\ down[c][2].type = "device-joined"
    /\ down[c][3].type = "device-joined"
    /\ down[c][2].deviceType # down[c][3].deviceType
    /\ devices[wsRoom[c]] = <<<<c, [deviceType |-> registered[c]]>>>>

\* C8: the `data` frames a connection is sent from one sender are in the
\* order the sender sent them, none of them twice.
PerSenderOrder ==
  \A b \in Conns : \A i, j \in DataIn(down[b]) :
    (i < j /\ down[b][i].from = down[b][j].from)
      => down[b][i].payload.timestamp < down[b][j].payload.timestamp

PerSenderOrderWitness ==
  \E b \in Conns : \E i, j \in DataIn(down[b]) :
    i < j /\ down[b][i].from = down[b][j].from

\* =========================================== claims on the store clients
\* socket c is about to hand an orientation sample to its onmessage
OrientationHead(c) ==
  /\ wsState[c] = "OPEN"
  /\ down[c] # <<>>
  /\ Head(down[c]).type = "data"
  /\ Head(down[c]).payload.type = "orientation"

\* C3: handling an orientation frame leaves exactly its sample in mobileData,
\* whatever was stored before, and nothing else (no frame of the render loop,
\* no other handler) changes mobileData: after s1 then s2 the store holds s2.
LastWriteWins ==
  [][\A cl \in Clients :
       /\ \A c \in Conns :
            (/\ wsOwner[c] = cl
             /\ OrientationHead(c)
             /\ wsState'[c] = "OPEN"
             /\ down'[c] = Tail(down[c]))
            => mobileData'[cl] = Head(down[c]).payload
       /\ mobileData'[cl] # mobileData[cl]
            => \E c \in Conns : /\ wsOwner[c] = cl
                                /\ OrientationHead(c)
                                /\ down'[c] = Tail(down[c])]_vars

\* a frame read one sample, and a later sample is stored now
LastWriteWitness ==
  /\ lastRead >= 1
  /\ mobileData["desk"] # Null
  /\ mobileData["desk"].timestamp > lastRead

\* C4: on every client mobileData is the absent value exactly as long as the
\* client has handled no orientation frame; the absent value is no sample.
AbsentUntilFirstSample ==
  \A cl \in Clients : (mobileData[cl] = Null) <=> ~gotSample[cl]

\* the display is connected and has handled a button action, and no sample
AbsentWitness ==
  /\ status["desk"] = "connected"
  /\ lastAction["desk"] # Null
  /\ runs >= 1
  /\ mobileData["desk"] = Null

\* C7: a socket d that was in the room when connection c joined has handled
\* a device-joined frame listing c before it handles any data frame from c.
JoinBeforeData ==
  \A d, c \in Conns :
    (c \in heard[d] /\ d \in atConnect[c]) => c \in announced[d]

JoinBeforeDataWitness ==
  \E d, c \in Conns :
    /\ wsOwner[d] = "desk"
    /\ wsOwner[c] = "phone"
    /\ d \in atConnect[c]
    /\ c \in heard[d]
    /\ mobileData["desk"] # Null

\* no button envelope is on its way and no click is owed
NoActionInFlight ==
  /\ ~pendingClick
  /\ \A c \in Conns :
       /\ \A i \in 1..Len(up[c]) :
            ~(up[c][i].type = "data" /\ up[c][i].payload.type = "button")
       /\ \A i \in 1..Len(down[c]) :
            ~(down[c][i].type = "data" /\ down[c][i].payload.type = "button")

\* C9: with phone and display connected to the same room throughout, once
\* nothing is in flight the display's A handler has run exactly once for each
\* press of the A button.
ExactlyOncePerPress ==
  (/\ \A c \in Conns : wsState[c] # "CLOSED"
   /\ ~stray
   /\ NoActionInFlight)
  => runs = presses

\* ================================================= claims on the phone
\* the orientation samples socket c has transmitted and the relay not yet read
OrientationSent(c) ==
  {i \in 1..Len(up[c]) : up[c][i].type = "data" /\ up[c][i].payload.type = "orientation"}

\* C11: the yaw (alpha) of every orientation sample the phone transmits lies
\* in (-180, 180], whatever readings in [0, 360) the sensor reported and
\* whatever offset a recalibration stored.
TransmittedYawInRange ==
  \A c \in Conns : \A i \in OrientationSent(c) :
    up[c][i].payload.alpha > -180 /\ up[c][i].payload.alpha <= 180

LevelAfterRecalibration ==
  (/\ levelFrom > 0
   /\ lastRead > levelFrom
   /\ ~stray
   /\ NoActionInFlight
   /\ \A c \in Conns : wsState[c] # "CLOSED")
  => applied = [beta |-> 0, gamma |-> 0]

\* ================================================== claims on the store
\* C14: the status of a client moves only from disconnected to connecting,
\* from connecting to connected, and from connected (or connecting) to
\* disconnected, possibly through error; never from disconnected to connected.
StatusTransitions ==
  [][\A cl \in Clients :
       status'[cl] # status[cl]
       => <<status[cl], status'[cl]>> \in
            {<<"disconnected", "connecting">>, <<"connecting", "connected">>,
             <<"connected", "disconnected">>, <<"connected", "error">>,
             <<"connecting", "disconnected">>, <<"connecting", "error">>,
             <<"error", "disconnected">>}]_vars

\* C15: when the socket a store holds has closed, and no handler of the store
\* is left to run for it, the status is disconnected.
DropDetected ==
  \A cl \in Clients :
    (ws[cl] # 0 /\ wsState[ws[cl]] = "CLOSED" /\ down[ws[cl]] = <<>>)
    => status[cl] = "disconnected"

\* the Date.now() stamps of the orientation samples in queue q
Stamps(q) ==
  {q[i].payload.timestamp :
     i \in {j \in 1..Len(q) : q[j].type = "data" /\ q[j].payload.type = "orientation"}}

\* C16: a sendData call on a store whose socket is not open transmits nothing
\* and changes nothing of the store, and its sample is never on the wire or in
\* a store later; a call on an open socket transmits exactly one data
\* envelope, on that socket.
SendNeverQueues ==
  /\ [](\A c \in Conns : /\ Stamps(up[c]) \cap unsent = {}
                          /\ Stamps(down[c]) \cap unsent = {}
                          /\ mobileData[wsOwner[c]] # Null
                               => mobileData[wsOwner[c]].timestamp \notin unsent)
  /\ [][sendCalls' # sendCalls
        => IF CanSend("phone")
           THEN /\ Len(up'[ws["phone"]]) = Len(up[ws["phone"]]) + 1
                /\ up'[ws["phone"]][Len(up'[ws["phone"]])].type = "data"
                /\ SubSeq(up'[ws["phone"]], 1, Len(up[ws["phone"]])) = up[ws["phone"]]
                /\ \A c \in Conns \ {ws["phone"]} : up'[c] = up[c]
           ELSE up' = up /\ down' = down /\ storeFields' = storeFields]_vars

\* a sample was refused while the socket was connecting, and a later one was
\* transmitted and relayed
SendNeverQueuesWitness ==
  /\ unsent = {1}
  /\ \E c \in Conns : wsState[c] = "OPEN" /\ 2 \in Stamps(up[c])

\* C18: of the sockets a client's connect() calls created, at most one is
\* connecting or open.
SingleConnection ==
  \A cl \in Clients :
    Cardinality({c \in Conns : wsOwner[c] = cl /\ wsState[c] \in {"CONNECTING", "OPEN"}}) <= 1

NormalizeYawClaim ==
  normPc = "done" =>
    /\ (normIn = 190 => normOut = -170)
    /\ (normIn = -190 => normOut = 170)
    /\ (normIn = 0 => normOut = 0)
    /\ ((normIn > -180 /\ normIn <= 180) => normOut = normIn)

\* ---------------------------------------------------------------- C17
\* the relay takes the frame at the head of c's queue
RelayTakes(c) ==
  /\ srvState[c] = "open" /\ up[c] # <<>> /\ Head(up[c]) # CloseMark
  /\ up'[c] = Tail(up[c])
\* the store takes the frame at the head of its socket c
ClientTakes(c) ==
  /\ wsState[c] = "OPEN" /\ down[c] # <<>>
  /\ down'[c] = Tail(down[c])
  /\ wsState'[c] = "OPEN"

GameTransitions ==
  {<<"START", "PLAYING">>, <<"PLAYING", "GAMEOVER">>, <<"GAMEOVER", "START">>}

\* C20: gameState is START until the first store call, every store call that
\* changes gameState takes it START -> PLAYING, PLAYING -> GAMEOVER or
\* GAMEOVER -> START, and startGame is never applied while PLAYING.
GameStateMachine ==
  /\ game.gameState \in {"START", "PLAYING", "GAMEOVER"}
  /\ calls = <<>> => game.gameState = "START"
  /\ calls # <<>> => calls[Len(calls)].to = game.gameState
  /\ \A i \in 1..Len(calls) :
       /\ calls[i].from # calls[i].to => <<calls[i].from, calls[i].to>> \in GameTransitions
       /\ calls[i].op = "startGame" => calls[i].from # "PLAYING"
       /\ i > 1 => calls[i].from = calls[i - 1].to

\* a run was started, ended by a collision and restarted: the restart reset
\* the store from GAMEOVER and started it from START
GameStateMachineWitness ==
  /\ Len(calls) = 2
  /\ calls[1] = [op |-> "resetGame", from |-> "GAMEOVER", to |-> "START"]
  /\ calls[2] = [op |-> "startGame", from |-> "START", to |-> "PLAYING"]
  /\ game.gameState = "PLAYING"
\* ---------------------------------------------------------------- C21
ButtonA == [type |-> "button", id |-> "A"]
\* the display's store takes a relayed A action from its socket c
DisplayTakesA(c) ==
  /\ WsOnMessage(c)
  /\ wsOwner[c] = "desk"
  /\ Head(down[c]).type = "data"
  /\ Head(down[c]).payload = ButtonA
Restarted(g) == g.gameState = "PLAYING" /\ g.score = 0 /\ g.isGameOver = FALSE

Joins(c) == srvState[c] = "none" /\ srvState'[c] = "open"

\* C22: when a connection joins a room the relay sends the roster of the room
\* to that connection and to no other, and leaves the roster as it is; the
\* roster changes only when the relay handles a register or a close.
OnConnectOnlyNewcomer ==
  [][/\ \A c \in Conns :
          Joins(c) =>
            /\ down'[c] = Append(down[c],
                  [type |-> "connected", connectionId |-> c, roomId |-> wsRoom'[c],
                   connectedDevices |-> MapKeys(devices[wsRoom'[c]])])
            /\ \A d \in Conns \ {c} : down'[d] = down[d]
            /\ devices' = devices
     /\ devices' # devices =>
          \E c \in Conns :
            /\ RelayTakes(c) \/ (srvState[c] = "open" /\ srvState'[c] = "closed")
            /\ Head(up[c]).type \in {"register", "close"}
    ]_vars

\* a connection has joined a room that already had a registered device: it
\* was sent the roster naming that device, has not registered itself, and
\* the device that was there received nothing about it
OnConnectOnlyNewcomerWitness ==
  \E c, d \in Conns :
    /\ c # d /\ d \in atConnect[c]
    /\ srvState[c] = "open" /\ registered[c] = "none"
    /\ MapKeys(devices[wsRoom[c]]) = <<d>>
    /\ down[c] = <<[type |-> "connected", connectionId |-> c, roomId |-> wsRoom[c],
                    connectedDevices |-> <<d>>]>>
    /\ \A i \in 1..Len(down[d]) : down[d][i].type # "connected" \/ down[d][i].connectionId = d
\* ---------------------------------------------------------------- C23
\* C23: a store that handles a relayed data frame with an orientation payload
\* stores the payload as mobileData and leaves lastAction; with a button
\* payload it stores the payload as lastAction and leaves mobileData; any
\* other frame (presence, connected, data of another payload type) changes
\* neither.
ClientDispatch ==
  [][\A c \in Conns :
       ClientTakes(c) =>
         LET m == Head(down[c])
             cl == wsOwner[c]
         IN IF m.type = "data" /\ m.payload.type = "orientation"
            THEN mobileData'[cl] = m.payload /\ lastAction' = lastAction
            ELSE IF m.type = "data" /\ m.payload.type = "button"
            THEN lastAction'[cl] = m.payload /\ mobileData' = mobileData
            ELSE mobileData' = mobileData /\ lastAction' = lastAction
    ]_vars

\* the display has handled its own device-joined frame and three data frames
\* of a peer: an orientation sample and a button action, both still stored,
\* and a third frame that replaced neither
ClientDispatchWitness ==
  /\ ws["desk"] # 0
  /\ announced[ws["desk"]] # {}
  /\ heard[ws["desk"]] # {}
  /\ mobileData["desk"] # Null /\ mobileData["desk"].timestamp < MaxDispatchEvents
  /\ lastAction["desk"] = [type |-> "button", id |-> "A"]
  /\ clock = MaxDispatchEvents
  /\ \A c \in Conns : up[c] = <<>>
  /\ down[ws["desk"]] = <<>>
  /\ \A c \in Conns : wsState[c] # "NONE" => wsRoom[c] = "r1"
  /\ Cardinality({c \in Conns : wsState[c] = "OPEN"}) = 2
\* ---------------------------------------------------------------- C24
\* disconnect() of client cl ran in this step: it is the one store function
\* that leaves ws null
Disconnects(cl) == ws[cl] # 0 /\ ws'[cl] = 0

NeverRunsWithoutSample ==
  game.gameState \in {"PLAYING", "GAMEOVER"} => mobileData["desk"] # Null

\* the game ran and is over, the phone has disconnected and its close has
\* been handled by the relay, and the display still holds the phone's sample
NeverRunsWithoutSampleWitness ==
  /\ game.gameState = "GAMEOVER"
  /\ seen = "GAMEOVER"
  /\ ws["phone"] = 0 /\ status["phone"] = "disconnected"
  /\ connectCalls["phone"] = 1
  /\ \E c \in Conns : wsOwner[c] = "phone" /\ srvState[c] = "closed"
  /\ mobileData["desk"] # Null

\* ---------------------------------------------------------------- C30
\* C30: in every state of the game store isGameOver is true exactly when
\* gameState is GAMEOVER, so exactly one of the game-over overlay (shown when
\* isGameOver) and the score display (shown when not isGameOver) is shown.
OverlayAgreesWithState ==
  game.isGameOver <=> game.gameState = "GAMEOVER"

\* the game ran for two frames, the display processed an A action, and a
\* collision ended the game: the flag is set with the state
OverlayAgreesWithStateWitness ==
  /\ game.gameState = "GAMEOVER" /\ game.isGameOver
  /\ calls = <<[op |-> "setGameOver", from |-> "PLAYING", to |-> "GAMEOVER"]>>
  /\ frames = 2
  /\ runs >= 1
\* ---------------------------------------------------------------- C25
\* C25: in every step that restarts the game from GAMEOVER, by an A action
\* or by the RESTART button, the obstacle is at its initial position when
\* play resumes in PLAYING.
ObstacleResetOnRestart ==
  [][(game.gameState = "GAMEOVER" /\ game'.gameState = "PLAYING") => obstacleZ' = 0]_vars

\* ---------------------------------------------------------------- C26
\* C26: a pickup that has been collected is, unless the game stops PLAYING,
\* eventually recycled and active again.
PickupReactivates ==
  (~pickup.active) ~> (pickup.active \/ game.gameState # "PLAYING")

\* ---------------------------------------------------------------- C29
\* C29: score is 0 whenever gameState is START, and no step that begins and
\* ends in GAMEOVER changes the score.
ScoreFrozenOutsidePlay ==
  [][/\ game.gameState = "START" => game.score = 0
     /\ game'.gameState = "START" => game'.score = 0
     /\ (game.gameState = "GAMEOVER" /\ game'.gameState = "GAMEOVER")
          => game'.score = game.score
    ]_vars
\* ---------------------------------------------------------------- C27
\* the socket the phone's last connect() made
Newest(c) == wsOwner[c] = "phone" /\ wsState[c] # "NONE" /\ \A d \in Conns : d > c => wsState[d] = "NONE"

\* C27: in the guide's store, once the socket made by the last connect() is
\* open, status is connected, ws is that socket and sendData transmits,
\* whenever the close event of an earlier socket was dispatched.
StaleCloseHarmless ==
  \A c \in Conns :
    (Newest(c) /\ wsState[c] = "OPEN")
      => /\ status["phone"] = "connected"
         /\ ws["phone"] = c
         /\ CanSend("phone")
====
